---- MODULE Spec2Model ----
(***************************************************************************)
(* Model of the Actions URI plugin: the registration of the routes, the    *)
(* handling of an incoming x-callback-url call (validation, handler,       *)
(* callback, note opening), alone or with a second call in flight, and the *)
(* note-targeting resolution used by the schemata of the routes that       *)
(* address a note by file, uid or periodic note.                           *)
(***************************************************************************)
EXTENDS Integers, Sequences, FiniteSets, TLC

VARIABLES
  env,      \* the vault as the plugin sees it: notes, metadata cache, plugins
  probe,    \* one direct application of the note-targeting resolution
  registered, \* the protocol handlers registered with the application
  pending,  \* the calls that have not come in yet
  calls     \* per call: the position of its protocol handler and what it did

vars == <<env, probe, registered, pending, calls>>

----------------------------------------------------------------------------
(* JavaScript values *)

\* A key that is not in the object (key in input is false, the value reads
\* as undefined).
Absent == "<absent>"

\* The result of an optional chain or of find() that found nothing.
Undefined == "<undefined>"

\* Truthiness of a string-or-undefined value: undefined and "" are falsy.
Truthy(v) == v \notin {Absent, Undefined, ""}

\* a || b on string-or-undefined values
OrElse(a, b) == Head(SelectSeq(<<a>>, Truthy) \o <<b>>)

\* Front-matter values of the uid key: no value, a scalar, or a list.
FmNull == [kind |-> "null", s |-> "", items |-> <<>>]
FmStr(s) == [kind |-> "str", s |-> s, items |-> <<>>]
FmList(items) == [kind |-> "list", s |-> "", items |-> items]

\* Truthiness of a front-matter value: null and "" are falsy, a list is truthy.
FmTruthy(v) == v.kind = "list" \/ (v.kind = "str" /\ v.s # "")

RECURSIVE Join(_, _)
\* Array.prototype.join(sep)
Join(items, sep) ==
  IF items = <<>> THEN ""
  ELSE IF Len(items) = 1 THEN items[1]
  ELSE items[1] \o sep \o Join(Tail(items), sep)

\* the template literal ${u}: the template-literal coercion of a value to a string
TemplateString(v) ==
  CASE v.kind = "str" -> v.s
    [] v.kind = "list" -> Join(v.items, ",")
    [] OTHER -> "null"

\* [v].flat(): a list is spliced in, anything else stays one element
Flat1(v) == IF v.kind = "list" THEN [i \in 1..Len(v.items) |-> FmStr(v.items[i])] ELSE <<v>>

\* Array.prototype.find(...)?.[...]: the first of the elements that satisfy
\* the test, or else the given value with undefined fields
Find(matching, orElse) == Head(matching \o <<orElse>>)

----------------------------------------------------------------------------
(* The vault *)

NotePaths == {"a.md", "b.md"}
MissingPath == "zz.md"

\* The content hash the file cache records for a note.
HashOf(path) == IF path = "a.md" THEN "h1" ELSE "h2"

\* h0 is the hash of a content no note has any more (a stale cache entry).
Hashes == {"h0", "h1", "h2"}

UidValues == {"u1", "u2"}

\* What the metadata cache holds for a content hash: no uid in the front
\* matter, a scalar uid, or a list-valued uid.
FrontMatters == {FmNull, FmStr("u1"), FmList(<<"u1", "u2">>)}

PeriodicNoteType == {"daily", "weekly"}

\* The note of the current period, where the vault has one.
PeriodNotePath(type) == IF type = "daily" THEN "a.md" ELSE "b.md"

MaxCacheEntries == 2

SeqsNoDup(S, n) == {s \in [1..n -> S] : \A i, j \in 1..n : i # j => s[i] # s[j]}

NoteLists == UNION {SeqsNoDup(NotePaths, n) : n \in 0..Cardinality(NotePaths)}

MetadataCaches ==
  UNION {
    {[i \in 1..n |-> [hash |-> hs[i], uid |-> fm[i]]] :
       hs \in SeqsNoDup(Hashes, n), fm \in [1..n -> FrontMatters]}
    : n \in 0..MaxCacheEntries}

Envs ==
  [notes : NoteLists, metadataCache : MetadataCaches, loaded : SUBSET PeriodicNoteType]

\* app.metadataCache.fileCache: path -> {hash}, one entry per note
FileCache(e) == [i \in 1..Len(e.notes) |-> [path |-> e.notes[i], hash |-> HashOf(e.notes[i])]]

\* app.vault.getMarkdownFiles()
GetMarkdownFiles(e) == e.notes

\* app.metadataCache.getFileCache(note)?.frontmatter, then
\* parseFrontMatterEntry(frontmatter, "uid"): the value, or null
ParseFrontMatterEntry(e, path) ==
  Find(SelectSeq(e.metadataCache, LAMBDA m : m.hash = HashOf(path)),
       [hash |-> Undefined, uid |-> FmNull]).uid

----------------------------------------------------------------------------
(* Results *)

Success(result) == [isSuccess |-> TRUE, result |-> result, code |-> "", error |-> ""]
Failure(code, msg) == [isSuccess |-> FALSE, result |-> "", code |-> code, error |-> msg]

\* STRINGS and ErrorCode
NoteNotFoundMsg == "note_not_found"
FaultyNoteTargetingMsg == "faulty_note_targeting"
FeatureNotAvailableMsg(type) == type \o "_note.feature_not_available"
NotFoundCode == "404"
FeatureUnavailableCode == "FeatureUnavailable"

----------------------------------------------------------------------------
(* Periodic notes *)

\* appHasDailyNotesPluginLoaded() and its four siblings
PluginLoadedCheck(e, type) == type \in e.loaded

\* getDailyNote(now, getAllDailyNotes()) and its siblings: the note of the
\* current period if the vault has it
GetCurrentPeriodNote(e, type) ==
  IF \E i \in 1..Len(e.notes) : e.notes[i] = PeriodNotePath(type)
  THEN PeriodNotePath(type)
  ELSE Undefined

\* pNote ? success(pNote.path) : failure(ErrorCode.NotFound, ...)
SuccessIfNote(pNote) ==
  IF pNote # Undefined THEN Success(pNote) ELSE Failure(NotFoundCode, NoteNotFoundMsg)

GetExistingPeriodNotePathIfPluginIsAvailable(e, type) ==
  IF ~PluginLoadedCheck(e, type)
  THEN Failure(FeatureUnavailableCode, FeatureNotAvailableMsg(type))
  ELSE SuccessIfNote(GetCurrentPeriodNote(e, type))

----------------------------------------------------------------------------
(* Looking a note up by its uid *)

\* The cached front matter has a truthy uid that, flattened and with each
\* element coerced to a string, includes the uid looked for.
CacheEntryMatches(cached, uid) ==
  /\ FmTruthy(cached.uid)
  /\ \E k \in 1..Len(Flat1(cached.uid)) : TemplateString(Flat1(cached.uid)[k]) = uid

\* The hash of the first cache entry whose front matter has the uid.
HashForUID(e, uid) ==
  Find(SelectSeq(e.metadataCache, LAMBDA m : CacheEntryMatches(m, uid)),
       [hash |-> Undefined, uid |-> FmNull]).hash

\* The path of the first file the file cache records with the hash.
FilePathForHash(e, hash) ==
  Find(SelectSeq(FileCache(e), LAMBDA c : c.hash = hash),
       [path |-> Undefined, hash |-> Undefined]).path

FindPathForUIDInMetadataCache(e, uid) == FilePathForHash(e, HashForUID(e, uid))

\* [uidValues].flatMap((u) => the template literal ${u}).includes(uid): the callback is applied
\* to the one element of the outer array, so a list is coerced as a whole.
NoteMatches(e, path, uid) == TemplateString(ParseFrontMatterEntry(e, path)) = uid

FindPathForUIDInMarkdownFiles(e, uid) ==
  Find(SelectSeq(GetMarkdownFiles(e), LAMBDA note : NoteMatches(e, note, uid)), Undefined)

\* path ? success(path) : failure(404, STRINGS.note_not_found)
SuccessIfFound(path) ==
  IF Truthy(path) THEN Success(path) ELSE Failure(NotFoundCode, NoteNotFoundMsg)

FilepathForUID(e, uid) ==
  SuccessIfFound(
    OrElse(FindPathForUIDInMetadataCache(e, uid), FindPathForUIDInMarkdownFiles(e, uid)))

----------------------------------------------------------------------------
(* Note targeting *)

TargetingKeys == {"file", "uid", "periodic-note"}

\* zodExistingNotePath.safeParse(path).success: the vault has a note there
ZodExistingNotePath(e, path) == \E i \in 1..Len(e.notes) : e.notes[i] = path

NoComputed == [inputKey |-> "<never>", path |-> "<never>", pathExists |-> FALSE]

\* The outcome of the refinement: the issues added to ctx, and the computed
\* values (NoComputed with never = TRUE when z.NEVER is returned).
Refused(msg) == [issues |-> <<msg>>, never |-> TRUE, computed |-> NoComputed]

\* res.isSuccess ? res.result : ""
ResultOrEmpty(res) == IF res.isSuccess THEN res.result ELSE ""

SelectedTarget(e, input) ==
  IF Truthy(input["file"]) THEN [inputKey |-> "file", path |-> input["file"]]
  ELSE IF Truthy(input["uid"]) THEN
    [inputKey |-> "uid", path |-> ResultOrEmpty(FilepathForUID(e, input["uid"]))]
  ELSE IF Truthy(input["periodic-note"]) THEN
    [inputKey |-> "periodic-note",
     path |-> ResultOrEmpty(GetExistingPeriodNotePathIfPluginIsAvailable(e, input["periodic-note"]))]
  ELSE [inputKey |-> "", path |-> ""]

\* A variant whose list of keys lacks "periodic-note".
KeysCountFileAndUid(input) == Cardinality({key \in {"file", "uid"} : input[key] # Absent})

KeysCount(input) == Cardinality({key \in TargetingKeys : input[key] # Absent})

\* A variant that never raises the issue of a missing note.
WithPathExistsNeverThrows(sel, pathExists, throwOnMissingNote) ==
  [issues |-> <<>>, never |-> FALSE,
   computed |-> [inputKey |-> sel.inputKey, path |-> sel.path, pathExists |-> pathExists]]

\* The second half of the refinement: whether the path exists, the issue of
\* a missing note, the computed values.
WithPathExists(sel, pathExists, throwOnMissingNote) ==
  IF ~pathExists /\ throwOnMissingNote THEN Refused(NoteNotFoundMsg)
  ELSE [issues |-> <<>>, never |-> FALSE,
        computed |-> [inputKey |-> sel.inputKey, path |-> sel.path, pathExists |-> pathExists]]

CheckPathAndReturn(e, sel, throwOnMissingNote) ==
  WithPathExists(sel, sel.path # "" /\ ZodExistingNotePath(e, sel.path), throwOnMissingNote)

ValidateNoteTargetingAndResolvePath(e, input, throwOnMissingNote) ==
  IF KeysCount(input) # 1 THEN Refused(FaultyNoteTargetingMsg)
  ELSE CheckPathAndReturn(e, SelectedTarget(e, input), throwOnMissingNote)

SoftValidateNoteTargetingAndResolvePath(e, input) ==
  ValidateNoteTargetingAndResolvePath(e, input, FALSE)

HardValidateNoteTargetingAndResolvePath(e, input) ==
  ValidateNoteTargetingAndResolvePath(e, input, TRUE)

----------------------------------------------------------------------------
(* Schemata *)

ParamKeys == {"file", "uid", "periodic-note", "x-success", "x-error", "silent"}

\* basePayload / incomingBaseParams: the callback URLs every route accepts
BaseKeys == {"x-success", "x-error"}

\* A schema: the keys of its object (all others are stripped), the keys that
\* are required, the keys validated by z.string().url(), and the
\* note-targeting refinement chained to it ("none", "soft" or "hard").
NoteReadPayload ==
  [keys |-> BaseKeys \cup {"file"}, required |-> {"file", "x-error", "x-success"},
   urls |-> {"x-error", "x-success"}, targeting |-> "none"]

NoteWritePayload ==
  [keys |-> BaseKeys \cup {"file", "silent"}, required |-> {"file"},
   urls |-> BaseKeys, targeting |-> "none"]

VaultDefaultParams ==
  [keys |-> BaseKeys, required |-> {"x-error", "x-success"},
   urls |-> {"x-error", "x-success"}, targeting |-> "none"]

\* A schema that chains soft/hardValidateNoteTargetingAndResolvePath.
NoteTargetingParams(mode) ==
  [keys |-> BaseKeys \cup TargetingKeys \cup {"silent"}, required |-> {},
   urls |-> BaseKeys, targeting |-> mode]

\* The schema a route names.
Schema(name) ==
  CASE name = "NoteReadPayload" -> NoteReadPayload
    [] name = "NoteWritePayload" -> NoteWritePayload
    [] name = "NoteTargetingParams.hard" -> NoteTargetingParams("hard")
    [] name = "NoteTargetingParams.soft" -> NoteTargetingParams("soft")
    [] OTHER -> VaultDefaultParams

\* z.string().url()
IsUrl(v) == v \in {"cb://success", "cb://error"}

\* The order in which the issues of the fields are reported.
KeyOrder == <<"file", "uid", "periodic-note", "silent", "x-error", "x-success">>

Issue(path, message) == [path |-> path, message |-> message]

\* The issues of one field: a required key that is missing, a URL that is none.
FieldIssues(schema, incoming, key) ==
  IF key \notin schema.keys THEN <<>>
  ELSE IF incoming[key] = Absent
    THEN IF key \in schema.required THEN <<Issue(key, "Required")>> ELSE <<>>
  ELSE IF key \in schema.urls /\ ~IsUrl(incoming[key]) THEN <<Issue(key, "Invalid url")>>
  ELSE <<>>

RECURSIVE AllFieldIssues(_, _, _)
AllFieldIssues(schema, incoming, i) ==
  IF i > Len(KeyOrder) THEN <<>>
  ELSE FieldIssues(schema, incoming, KeyOrder[i]) \o AllFieldIssues(schema, incoming, i + 1)

\* The parsed object: the keys of the schema, unknown keys stripped.
Strip(schema, incoming) ==
  [key \in ParamKeys |-> IF key \in schema.keys THEN incoming[key] ELSE Absent]

\* The result of safeParse after the refinement ran on the parsed object.
Refined(data, refined) ==
  IF refined.never
  THEN [success |-> FALSE,
        errors |-> [i \in 1..Len(refined.issues) |-> Issue("", refined.issues[i])],
        data |-> data, computed |-> NoComputed]
  ELSE [success |-> TRUE, errors |-> <<>>, data |-> data, computed |-> refined.computed]

\* The result of safeParse given the issues of the fields.
Parsed(e, schema, fieldIssues, data) ==
  IF fieldIssues # <<>>
    THEN [success |-> FALSE, errors |-> fieldIssues, data |-> data, computed |-> NoComputed]
  ELSE IF schema.targeting = "none"
    THEN [success |-> TRUE, errors |-> <<>>, data |-> data, computed |-> NoComputed]
  ELSE Refined(data, ValidateNoteTargetingAndResolvePath(e, data, schema.targeting = "hard"))

\* schema.safeParse(incomingParams): the field checks, then the refinement.
ParseWith(e, schema, incoming) ==
  Parsed(e, schema, AllFieldIssues(schema, incoming, 1), Strip(schema, incoming))

SafeParse(e, schemaName, incoming) == ParseWith(e, Schema(schemaName), incoming)

----------------------------------------------------------------------------
(* Routes *)

\* routes.note.ts, the /vault routes, and two routes whose schemata chain the
\* hard and the soft note targeting.  The path of a route is the list of its
\* aliases; a route with a plain string for a path has the one.
Routes ==
  << [path |-> <<"note", "note/get">>, schema |-> "NoteReadPayload", handler |-> "handleNoteGet"],
     [path |-> <<"note/create">>, schema |-> "NoteWritePayload", handler |-> "handleNoteCreate"],
     [path |-> <<"note/append">>, schema |-> "NoteWritePayload", handler |-> "handleNoteAppend"],
     [path |-> <<"note/prepend">>, schema |-> "NoteWritePayload", handler |-> "handleNotePrepend"],
     [path |-> <<"vault/open">>, schema |-> "VaultDefaultParams", handler |-> "handleOpen"],
     [path |-> <<"vault/close">>, schema |-> "VaultDefaultParams", handler |-> "handleClose"],
     [path |-> <<"vault/info">>, schema |-> "VaultDefaultParams", handler |-> "handleInfo"],
     [path |-> <<"vault/list-folders">>, schema |-> "VaultDefaultParams", handler |-> "handleListFolders"],
     [path |-> <<"targeting/hard">>, schema |-> "NoteTargetingParams.hard", handler |-> "handleTargetedNote"],
     [path |-> <<"targeting/soft">>, schema |-> "NoteTargetingParams.soft", handler |-> "handleTargetedNote"] >>

URI_NAMESPACE == "actions-uri"

\* buildFullPath(path): the namespace, a slash and the path, as one string; a
\* list of aliases put into a string comes out joined by commas.
BuildFullPath(path) == URI_NAMESPACE \o "/" \o Join(path, ",")

\* registerRoutes: what registerObsidianProtocolHandler has been given, one
\* protocol handler for each route
RegisterRoutes(routes) ==
  {[fullPath |-> BuildFullPath(routes[i].path), schema |-> routes[i].schema,
    handler |-> routes[i].handler] : i \in 1..Len(routes)}

----------------------------------------------------------------------------
(* Handlers *)

\* A handler result: a success, which may carry the path of the note it
\* processed, a failure with its code and message, or nothing at all.
HandlerSuccess(processedFilepath) ==
  [defined |-> TRUE, isSuccess |-> TRUE, processedFilepath |-> processedFilepath,
   errorCode |-> "", errorMessage |-> ""]

HandlerFailure(code, msg) ==
  [defined |-> TRUE, isSuccess |-> FALSE, processedFilepath |-> Absent,
   errorCode |-> code, errorMessage |-> msg]

NoResult ==
  [defined |-> FALSE, isSuccess |-> FALSE, processedFilepath |-> Absent,
   errorCode |-> "", errorMessage |-> ""]

\* What await handler(params) can resolve to.  The note handlers of
\* routes.note.ts only log and return nothing; the /vault handlers return a
\* success without a processed path, or their one failure; a handler of a
\* note-targeting route is given by the feature module and may return any
\* result.
HandlerResults(handler) ==
  CASE handler \in {"handleNoteGet", "handleNoteCreate", "handleNoteAppend", "handleNotePrepend"} ->
         {NoResult}
    [] handler = "handleOpen" -> {HandlerSuccess(Absent)}
    [] handler = "handleClose" ->
         {HandlerFailure("405", "not_available_on_mobile"), HandlerSuccess(Absent)}
    [] handler = "handleInfo" ->
         {HandlerFailure("412", "vault_internals_not_found"), HandlerSuccess(Absent)}
    [] handler = "handleListFolders" -> {HandlerSuccess(Absent)}
    [] OTHER ->
         {HandlerSuccess("a.md"), HandlerSuccess(""), HandlerSuccess(Absent),
          HandlerFailure(NotFoundCode, NoteNotFoundMsg),
          [HandlerFailure("500", "handler failed") EXCEPT !.processedFilepath = "a.md"]}

----------------------------------------------------------------------------
(* Handling a call *)

\* What a call does that can be seen from outside, in the order it does it.
Event(type, arg, payload) == [type |-> type, arg |-> arg, payload |-> payload]

\* A StringResultObject
StringResult(isSuccess, text) == [isSuccess |-> isSuccess, result |-> text]
NoStringResult == [isSuccess |-> FALSE, result |-> "<none>"]

\* params.silent after zodOptionalBoolean: true, false or undefined
IsTrue(v) == v = "true"

\* sendUrlCallback(url, handlerRes, params): the URL is called with the result
\* appended; delivered is whether the sending worked.
SendUrlCallback(url, handlerRes, delivered) ==
  [result |-> IF delivered THEN StringResult(TRUE, "") ELSE StringResult(FALSE, "callback failed"),
   events |-> <<Event("sendUrlCallback", url, handlerRes)>>]

\* focusOrOpenNote(filepath); opened is whether the UI managed to
FocusOrOpenNote(filepath, opened) ==
  [result |-> IF opened THEN StringResult(TRUE, "Note opened") ELSE StringResult(FALSE, "Note couldn't be opened"),
   events |-> <<Event("focusOrOpenNote", filepath, NoResult)>>]

\* A variant that falls back on the other callback URL when the one that
\* goes with the result is missing.
SendUrlCallbackToEitherUrl(handlerRes, params, delivered) ==
  IF handlerRes.isSuccess
  THEN IF Truthy(params["x-success"])
       THEN SendUrlCallback(params["x-success"], handlerRes, delivered)
       ELSE IF Truthy(params["x-error"])
       THEN SendUrlCallback(params["x-error"], handlerRes, delivered)
       ELSE [result |-> StringResult(TRUE, "No x-success callback URL provided"), events |-> <<>>]
  ELSE IF Truthy(params["x-error"])
       THEN SendUrlCallback(params["x-error"], handlerRes, delivered)
       ELSE IF Truthy(params["x-success"])
       THEN SendUrlCallback(params["x-success"], handlerRes, delivered)
       ELSE [result |-> StringResult(TRUE, "No x-error callback URL provided"), events |-> <<>>]

\* A variant that does what the comment above the method says: no callback
\* for a call with a set silent parameter.
SendUrlCallbackUnlessSilent(handlerRes, params, delivered) ==
  IF IsTrue(params["silent"])
  THEN [result |-> StringResult(TRUE, "No callback, the silent parameter was set"), events |-> <<>>]
  ELSE IF handlerRes.isSuccess
  THEN IF Truthy(params["x-success"])
       THEN SendUrlCallback(params["x-success"], handlerRes, delivered)
       ELSE [result |-> StringResult(TRUE, "No x-success callback URL provided"), events |-> <<>>]
  ELSE IF Truthy(params["x-error"])
       THEN SendUrlCallback(params["x-error"], handlerRes, delivered)
       ELSE [result |-> StringResult(TRUE, "No x-error callback URL provided"), events |-> <<>>]

\* A variant that reports a missing callback URL as a failure.
SendUrlCallbackOrFail(handlerRes, params, delivered) ==
  IF handlerRes.isSuccess
  THEN IF Truthy(params["x-success"])
       THEN SendUrlCallback(params["x-success"], handlerRes, delivered)
       ELSE [result |-> StringResult(FALSE, "No x-success callback URL provided"), events |-> <<>>]
  ELSE IF Truthy(params["x-error"])
       THEN SendUrlCallback(params["x-error"], handlerRes, delivered)
       ELSE [result |-> StringResult(FALSE, "No x-error callback URL provided"), events |-> <<>>]

SendUrlCallbackIfNeeded(handlerRes, params, delivered) ==
  IF handlerRes.isSuccess
  THEN IF Truthy(params["x-success"])
       THEN SendUrlCallback(params["x-success"], handlerRes, delivered)
       ELSE [result |-> StringResult(TRUE, "No x-success callback URL provided"), events |-> <<>>]
  ELSE IF Truthy(params["x-error"])
       THEN SendUrlCallback(params["x-error"], handlerRes, delivered)
       ELSE [result |-> StringResult(TRUE, "No x-error callback URL provided"), events |-> <<>>]

\* A variant without the check of the silent parameter.
OpenFileEvenIfSilent(handlerResult, params, opened) ==
  IF ~handlerResult.isSuccess
    THEN [result |-> StringResult(TRUE, "No file to open, the handler failed"), events |-> <<>>]
  ELSE IF ~Truthy(handlerResult.processedFilepath)
    THEN [result |-> StringResult(TRUE, "No file to open, handler did not return a processedFilepath property"),
          events |-> <<>>]
  ELSE FocusOrOpenNote(handlerResult.processedFilepath, opened)

\* A variant without the check of the handler result.
OpenFileEvenAfterFailure(handlerResult, params, opened) ==
  IF IsTrue(params["silent"])
    THEN [result |-> StringResult(TRUE, "No file to open, the silent parameter was set"),
          events |-> <<>>]
  ELSE IF ~Truthy(handlerResult.processedFilepath)
    THEN [result |-> StringResult(TRUE, "No file to open, handler did not return a processedFilepath property"),
          events |-> <<>>]
  ELSE FocusOrOpenNote(handlerResult.processedFilepath, opened)

OpenFileIfNeeded(handlerResult, params, opened) ==
  IF ~handlerResult.isSuccess
    THEN [result |-> StringResult(TRUE, "No file to open, the handler failed"), events |-> <<>>]
  ELSE IF IsTrue(params["silent"])
    THEN [result |-> StringResult(TRUE, "No file to open, the silent parameter was set"),
          events |-> <<>>]
  ELSE IF ~Truthy(handlerResult.processedFilepath)
    THEN [result |-> StringResult(TRUE, "No file to open, handler did not return a processedFilepath property"),
          events |-> <<>>]
  ELSE FocusOrOpenNote(handlerResult.processedFilepath, opened)

\* A variant that opens the note before it sends the callback.
HandleIncomingCallOpenFirst(call, handlerResult, delivered, opened) ==
  LET open == OpenFileIfNeeded(handlerResult, call.params, opened)
      sent == SendUrlCallbackIfNeeded(handlerResult, call.params, delivered)
  IN [call EXCEPT
        !.pc = "done",
        !.handlerResult = handlerResult,
        !.sendCallbackResult = sent.result,
        !.openResult = open.result,
        !.events = @ \o <<Event("handlerResolved", "", handlerResult)>>
                     \o <<Event("openFileIfNeeded", "", NoResult)>> \o open.events
                     \o <<Event("sendUrlCallbackIfNeeded", "", NoResult)>> \o sent.events
                     \o <<Event("processingResult", "", NoResult)>>]

\* A variant that gives up when the handler has failed: no callback, no
\* opening of a note, no ProcessingResult.
HandleIncomingCallAbortOnFailure(call, handlerResult, delivered, opened) ==
  LET sent == SendUrlCallbackIfNeeded(handlerResult, call.params, delivered)
      open == OpenFileIfNeeded(handlerResult, call.params, opened)
  IN IF ~handlerResult.isSuccess
     THEN [call EXCEPT
             !.pc = "aborted",
             !.handlerResult = handlerResult,
             !.events = @ \o <<Event("handlerResolved", "", handlerResult)>>]
     ELSE [call EXCEPT
             !.pc = "done",
             !.handlerResult = handlerResult,
             !.sendCallbackResult = sent.result,
             !.openResult = open.result,
             !.events = @ \o <<Event("handlerResolved", "", handlerResult)>>
                          \o <<Event("sendUrlCallbackIfNeeded", "", NoResult)>> \o sent.events
                          \o <<Event("openFileIfNeeded", "", NoResult)>> \o open.events
                          \o <<Event("processingResult", "", NoResult)>>]

\* handleIncomingCall after await handlerFunc(params) has resolved: the
\* callback, the opening of the note, the ProcessingResult.
HandleIncomingCall(call, handlerResult, delivered, opened) ==
  LET sent == SendUrlCallbackIfNeeded(handlerResult, call.params, delivered)
      open == OpenFileIfNeeded(handlerResult, call.params, opened)
  IN [call EXCEPT
        !.pc = "done",
        !.handlerResult = handlerResult,
        !.sendCallbackResult = sent.result,
        !.openResult = open.result,
        !.events = @ \o <<Event("handlerResolved", "", handlerResult)>>
                     \o <<Event("sendUrlCallbackIfNeeded", "", NoResult)>> \o sent.events
                     \o <<Event("openFileIfNeeded", "", NoResult)>> \o open.events
                     \o <<Event("processingResult", "", NoResult)>>]

\* A handler that returned nothing: reading handlerRes.isSuccess throws, and
\* the protocol handler promise is rejected.
ThrowTypeError(call) ==
  [call EXCEPT !.pc = "threw", !.events = @ \o <<Event("handlerResolved", "", NoResult)>>]

RECURSIVE ErrorLines(_)
ErrorLines(errors) ==
  IF errors = <<>> THEN <<>>
  ELSE <<"- " \o Head(errors).path \o ": " \o Head(errors).message>> \o ErrorLines(Tail(errors))

\* A variant that also reports the parse error to the x-error URL.
HandleParseErrorAndCallBack(call, errors) ==
  LET msg == <<"Incoming call failed">> \o ErrorLines(errors)
  IN [call EXCEPT
        !.pc = "rejected",
        !.errors = errors,
        !.events = @ \o <<Event("showBrandedNotice", Join(msg, "\n"), NoResult)>>
                     \o (IF Truthy(call.incoming["x-error"])
                         THEN SendUrlCallback(call.incoming["x-error"], NoResult, TRUE).events
                         ELSE <<>>)]

\* handleParseError: one notice with every issue on a line of its own
HandleParseError(call, errors) ==
  LET msg == <<"Incoming call failed">> \o ErrorLines(errors)
  IN [call EXCEPT
        !.pc = "rejected",
        !.errors = errors,
        !.events = @ \o <<Event("showBrandedNotice", Join(msg, "\n"), NoResult)>>]

\* The start of handleIncomingCall: the handler is called and awaited.
CallHandler(call, parsed) ==
  [call EXCEPT
     !.pc = "awaiting",
     !.params = parsed.data,
     !.computed = parsed.computed,
     !.events = @ \o <<Event("handler", call.route.handler, NoResult)>>]

----------------------------------------------------------------------------
(* The state machine *)

\* The invocations of protocol handlers that can be in flight.  Spec lets one
\* call in, SpecTwoCalls both.
CallIds == {1, 2}

Param(file, uid, periodic, xSuccess, xError, silent) ==
  ("file" :> file) @@ ("uid" :> uid) @@ ("periodic-note" :> periodic)
    @@ ("x-success" :> xSuccess) @@ ("x-error" :> xError) @@ ("silent" :> silent)

NoParams == Param(Absent, Absent, Absent, Absent, Absent, Absent)

\* The parameters a call can come in with.
IncomingParams ==
  {Param(file, uid, periodic, xSuccess, xError, silent) :
     file \in {Absent, "", "a.md", MissingPath},
     uid \in {Absent, "u1"},
     periodic \in {Absent, "daily"},
     xSuccess \in {Absent, "", "cb://success"},
     xError \in {Absent, "", "cb://error"},
     silent \in {Absent, "true", "false"}}

\* The closure registerRoutes registers for a route, given the result of
\* schema.safeParse(incomingParams).
ProtocolHandler(call, res) ==
  IF res.success THEN CallHandler(call, res) ELSE HandleParseError(call, res.errors)

\* The targeting parameters the resolution is applied to directly.
TargetingInputs ==
  {Param(file, uid, periodic, Absent, Absent, Absent) :
     file \in {Absent, "", "a.md", MissingPath},
     uid \in {Absent, "", "null"} \cup UidValues,
     periodic \in {Absent, ""} \cup PeriodicNoteType}

\* The vaults the calls are handled in.
CallEnvs ==
  [notes : {<<"a.md">>},
   metadataCache : {<<>>, <<[hash |-> "h1", uid |-> FmStr("u1")]>>},
   loaded : {{}, {"daily"}}]

NoRoute == [fullPath |-> "", schema |-> "", handler |-> ""]

IdleCall ==
  [pc |-> "idle", route |-> NoRoute, incoming |-> NoParams, params |-> NoParams,
   computed |-> NoComputed, errors |-> <<>>, handlerResult |-> NoResult,
   sendCallbackResult |-> NoStringResult, openResult |-> NoStringResult, events |-> <<>>]

IdleProbe == [state |-> "idle", input |-> NoParams, mode |-> "", out |-> Refused("")]

\* onload: the routes are registered once the layout is ready.
Init ==
  /\ env \in CallEnvs
  /\ probe = IdleProbe
  /\ registered = RegisterRoutes(Routes)
  /\ pending = {1}
  /\ calls = [c \in CallIds |-> IdleCall]

\* The protocol handler of a route gets a call with one of the given
\* parameters: they are parsed, and either the handler is called or the parse
\* error is shown.
Incoming(c, incomings) ==
  /\ c \in pending
  /\ \E route \in registered, incoming \in incomings :
       calls' = [calls EXCEPT ![c] =
                  ProtocolHandler([calls[c] EXCEPT !.route = route, !.incoming = incoming],
                                  SafeParse(env, route.schema, incoming))]
  /\ pending' = pending \ {c}
  /\ UNCHANGED <<env, probe, registered>>

IncomingCall(c) == Incoming(c, IncomingParams)

\* A variant that keeps the validated parameters in a field of the plugin:
\* the call that resumes after its handler finds the parameters of whichever
\* call came in last.
HandlerResolvesWithSharedParams(c) ==
  /\ calls[c].pc = "awaiting"
  /\ \E handlerResult \in HandlerResults(calls[c].route.handler), delivered, opened \in BOOLEAN,
        d \in CallIds :
       /\ calls[d].pc \in {"awaiting", "done", "threw"}
       /\ calls' = [calls EXCEPT ![c] =
                      IF handlerResult.defined
                      THEN HandleIncomingCall([calls[c] EXCEPT !.params = calls[d].params],
                                              handlerResult, delivered, opened)
                      ELSE ThrowTypeError(calls[c])]
  /\ UNCHANGED <<env, probe, registered, pending>>

\* The handler of an awaited call resolves, and the call is handled to its end.
HandlerResolves(c) ==
  /\ calls[c].pc = "awaiting"
  /\ \E handlerResult \in HandlerResults(calls[c].route.handler), delivered, opened \in BOOLEAN :
       calls' = [calls EXCEPT ![c] =
                   IF handlerResult.defined
                   THEN HandleIncomingCall(calls[c], handlerResult, delivered, opened)
                   ELSE ThrowTypeError(calls[c])]
  /\ UNCHANGED <<env, probe, registered, pending>>

Next == \E c \in CallIds : IncomingCall(c) \/ HandlerResolves(c)

Spec == Init /\ [][Next]_vars

\* The note-targeting resolution applied to every input in every vault.
InitResolve ==
  /\ env \in Envs
  /\ probe = IdleProbe
  /\ registered = RegisterRoutes(Routes)
  /\ pending = {}
  /\ calls = [c \in CallIds |-> IdleCall]

Resolve(mode) ==
  /\ probe.state = "idle"
  /\ \E input \in TargetingInputs :
       probe' = [state |-> "resolved", input |-> input, mode |-> mode,
                 out |-> IF mode = "hard"
                         THEN HardValidateNoteTargetingAndResolvePath(env, input)
                         ELSE SoftValidateNoteTargetingAndResolvePath(env, input)]
  /\ UNCHANGED <<env, registered, pending, calls>>

ResolveSoft == Resolve("soft")

ResolveHard == Resolve("hard")

NextResolve == ResolveSoft \/ ResolveHard

SpecResolve == InitResolve /\ [][NextResolve]_vars

\* Two calls in flight: either may come in, and either handler may resolve,
\* while the other call is where it is.
TwoCallsParams ==
  {Param(file, Absent, Absent, xSuccess, xError, silent) :
     file \in {Absent, "a.md"},
     xSuccess \in {Absent, "cb://success"},
     xError \in {Absent, "cb://error"},
     silent \in {Absent, "true"}}

InitTwoCalls ==
  /\ env = [notes |-> <<"a.md">>, metadataCache |-> <<>>, loaded |-> {}]
  /\ probe = IdleProbe
  /\ registered = RegisterRoutes(Routes)
  /\ pending = CallIds
  /\ calls = [c \in CallIds |-> IdleCall]

IncomingCallOfTwo(c) == Incoming(c, TwoCallsParams)

NextTwoCalls == \E c \in CallIds : IncomingCallOfTwo(c) \/ HandlerResolves(c)

SpecTwoCalls == InitTwoCalls /\ [][NextTwoCalls]_vars

----------------------------------------------------------------------------
(* What a call did *)

\* The events of a given type of call c, in order.
EventsOfType(c, types) == SelectSeq(calls[c].events, LAMBDA ev : ev.type \in types)

Arrived(c) == calls[c].pc # "idle"

\* The call's parameters do not pass the schema of its route.
FailsValidation(c) ==
  Arrived(c) /\ ~SafeParse(env, calls[c].route.schema, calls[c].incoming).success

\* C1: a call whose parameters fail the validation of its route (a field
\* check, the note targeting, a note not found in hard mode, with or without
\* x-error) never has its handler called, sends no callback, opens no note,
\* and shows exactly one notice.
C1_RejectedCallOnlyShowsNotice ==
  \A c \in CallIds :
    FailsValidation(c) =>
      /\ EventsOfType(c, {"handler", "handlerResolved", "sendUrlCallbackIfNeeded",
                          "sendUrlCallback", "openFileIfNeeded", "focusOrOpenNote",
                          "processingResult"}) = <<>>
      /\ Len(EventsOfType(c, {"showBrandedNotice"})) = 1
      /\ Len(calls[c].events) = 1

C1_Witness ==
  \E c \in CallIds :
    /\ calls[c].pc = "rejected"
    /\ calls[c].route.schema = "NoteTargetingParams.hard"
    /\ calls[c].errors = <<Issue("", NoteNotFoundMsg)>>
    /\ calls[c].incoming["x-error"] = "cb://error"
    /\ Len(EventsOfType(c, {"showBrandedNotice"})) = 1

\* The positions, in the events of call c, of the events of the given types.
Positions(c, types) == {i \in 1..Len(calls[c].events) : calls[c].events[i].type \in types}

Before(S, T) == \A i \in S, j \in T : i < j

\* C2: within a call the handler resolves first, then the callback is
\* dispatched, then the note is opened, then the ProcessingResult is put
\* together; each of the four happens once in a call that is handled to its
\* end, and no callback is sent or note opened outside its step.
C2_HandlerThenCallbackThenOpen ==
  \A c \in CallIds :
    LET resolved == Positions(c, {"handlerResolved"})
        callback == Positions(c, {"sendUrlCallbackIfNeeded", "sendUrlCallback"})
        open == Positions(c, {"openFileIfNeeded", "focusOrOpenNote"})
        result == Positions(c, {"processingResult"})
    IN /\ Before(resolved, callback)
       /\ Before(callback, open)
       /\ Before(open, result)
       /\ callback # {} => resolved # {}
       /\ open # {} => callback # {}
       /\ result # {} => open # {}
       /\ calls[c].pc = "done" =>
            /\ Cardinality(resolved) = 1
            /\ Cardinality(Positions(c, {"sendUrlCallbackIfNeeded"})) = 1
            /\ Cardinality(Positions(c, {"openFileIfNeeded"})) = 1
            /\ Cardinality(result) = 1

C2_Witness ==
  \E c \in CallIds :
    /\ calls[c].pc = "done"
    /\ Positions(c, {"sendUrlCallback"}) # {}
    /\ Positions(c, {"focusOrOpenNote"}) # {}

\* The callbacks call c sent, and the notes it opened.
CallbacksSent(c) == EventsOfType(c, {"sendUrlCallback"})
NotesOpened(c) == EventsOfType(c, {"focusOrOpenNote"})

Done(c) == calls[c].pc = "done"

RelevantCallback(c) ==
  IF calls[c].handlerResult.isSuccess THEN calls[c].params["x-success"] ELSE calls[c].params["x-error"]

\* C10: when the callback parameter that goes with the handler result is
\* absent or empty, no callback is sent and the callback step reports a
\* success with a text that says so.
C10_NoCallbackUrlIsNoError ==
  \A c \in CallIds :
    (Done(c) /\ ~Truthy(RelevantCallback(c))) =>
      /\ CallbacksSent(c) = <<>>
      /\ calls[c].sendCallbackResult.isSuccess
      /\ calls[c].sendCallbackResult.result \in
           {"No x-success callback URL provided", "No x-error callback URL provided"}

C10_Witness ==
  \E c \in CallIds :
    /\ Done(c)
    /\ calls[c].handlerResult.isSuccess
    /\ calls[c].params["x-success"] = Absent
    /\ calls[c].params["x-error"] = Absent
    /\ CallbacksSent(c) = <<>>
    /\ calls[c].sendCallbackResult = StringResult(TRUE, "No x-success callback URL provided")

\* The handler of call c has resolved with a failure.
HandlerFailed(c) ==
  \E i \in 1..Len(calls[c].events) :
    /\ calls[c].events[i].type = "handlerResolved"
    /\ calls[c].events[i].payload.defined
    /\ ~calls[c].events[i].payload.isSuccess

\* The steps call c went through, in order.
Steps(c) ==
  LET ev == EventsOfType(c, {"handlerResolved", "sendUrlCallbackIfNeeded",
                             "openFileIfNeeded", "processingResult"})
  IN [i \in 1..Len(ev) |-> ev[i].type]

\* The ProcessingResult of a call that was handled to its end.
ProcessingResult(c) ==
  [params |-> calls[c].params, handlerResult |-> calls[c].handlerResult,
   sendCallbackResult |-> calls[c].sendCallbackResult, openResult |-> calls[c].openResult]

\* C11: a call whose handler returned a failure is still handled to its end:
\* the callback step, then the step that opens the note, are gone through with
\* the failure, and the ProcessingResult holds the validated parameters, the
\* failure, the outcome of the callback step and the outcome of the open step.
C11_FailureDoesNotAbort ==
  \A c \in CallIds :
    HandlerFailed(c) =>
      /\ Done(c)
      /\ Steps(c) = <<"handlerResolved", "sendUrlCallbackIfNeeded",
                      "openFileIfNeeded", "processingResult">>
      /\ ProcessingResult(c).params = SafeParse(env, calls[c].route.schema, calls[c].incoming).data
      /\ ~ProcessingResult(c).handlerResult.isSuccess
      /\ ProcessingResult(c).handlerResult = EventsOfType(c, {"handlerResolved"})[1].payload
      /\ ProcessingResult(c).sendCallbackResult # NoStringResult
      /\ ProcessingResult(c).openResult = StringResult(TRUE, "No file to open, the handler failed")

C11_Witness ==
  \E c \in CallIds :
    /\ HandlerFailed(c)
    /\ Done(c)
    /\ calls[c].handlerResult.errorCode = NotFoundCode
    /\ calls[c].params["x-error"] = Absent
    /\ ProcessingResult(c).sendCallbackResult = StringResult(TRUE, "No x-error callback URL provided")
    /\ ProcessingResult(c).openResult = StringResult(TRUE, "No file to open, the handler failed")

\* The protocol handlers registered for the given full path.
RegisteredAt(fullPath) == {r \in registered : r.fullPath = fullPath}

\* C12: for every route whose path is a list of aliases, each alias has a
\* registered protocol handler of its own under its full path, and the
\* protocol handlers of the aliases of a route all validate a call against the
\* schema of the route and dispatch it to the handler of the route.
C12_EachAliasIsRegistered ==
  \A i \in 1..Len(Routes) :
    Len(Routes[i].path) > 1 =>
      \A k \in 1..Len(Routes[i].path) :
        RegisteredAt(BuildFullPath(<<Routes[i].path[k]>>)) =
          {[fullPath |-> BuildFullPath(<<Routes[i].path[k]>>),
            schema |-> Routes[i].schema, handler |-> Routes[i].handler]}

\* Call c came in on the route that has the given alias.
OnRoute(c, alias) ==
  \E i \in 1..Len(Routes) :
    /\ \E k \in 1..Len(Routes[i].path) : Routes[i].path[k] = alias
    /\ calls[c].route.schema = Routes[i].schema
    /\ calls[c].route.handler = Routes[i].handler

\* Call c carries the file parameter and nothing else.
CarriesOnlyFile(c) ==
  /\ calls[c].incoming["file"] \notin {Absent, ""}
  /\ \A key \in ParamKeys \ {"file"} : calls[c].incoming[key] = Absent

\* C13: a call to note/get that carries only the file parameter, naming a note
\* of the vault, passes the validation and has its handler called; it does not
\* end in a parse error or in an exception, and when it has been handled the
\* handler result is a success and the note at that path, and nothing else,
\* has been focused or opened.
C13_NoteGetOpensTheNote ==
  \A c \in CallIds :
    (/\ Arrived(c)
     /\ OnRoute(c, "note/get")
     /\ CarriesOnlyFile(c)
     /\ ZodExistingNotePath(env, calls[c].incoming["file"])) =>
      /\ calls[c].pc \in {"awaiting", "done"}
      /\ Len(EventsOfType(c, {"handler"})) = 1
      /\ Done(c) =>
           /\ calls[c].handlerResult.isSuccess
           /\ NotesOpened(c) = <<Event("focusOrOpenNote", calls[c].incoming["file"], NoResult)>>

\* The handler result of call c names the note it processed, and the call is
\* not a silent one.
HasNoteToOpen(c) ==
  /\ ~IsTrue(calls[c].params["silent"])
  /\ Truthy(calls[c].handlerResult.processedFilepath)

\* C14: after a success, focusOrOpenNote is called if and only if silent is
\* not set and the result has a non-empty processed path; it is then called
\* once, with that path, and what it returns is the open outcome of the call.
\* Otherwise nothing is opened and the open outcome is a success; for a result
\* without a processed path it says that there is no file to open.
C14_OpensExactlyTheProcessedNote ==
  \A c \in CallIds :
    (Done(c) /\ calls[c].handlerResult.isSuccess) =>
      /\ HasNoteToOpen(c) =>
           /\ NotesOpened(c) =
                <<Event("focusOrOpenNote", calls[c].handlerResult.processedFilepath, NoResult)>>
           /\ \E opened \in BOOLEAN :
                calls[c].openResult =
                  FocusOrOpenNote(calls[c].handlerResult.processedFilepath, opened).result
      /\ ~HasNoteToOpen(c) =>
           /\ NotesOpened(c) = <<>>
           /\ calls[c].openResult.isSuccess
      /\ (~IsTrue(calls[c].params["silent"]) /\ ~Truthy(calls[c].handlerResult.processedFilepath)) =>
           calls[c].openResult =
             StringResult(TRUE, "No file to open, handler did not return a processedFilepath property")

C14_Witness ==
  \E c \in CallIds :
    /\ Done(c)
    /\ calls[c].handlerResult = HandlerSuccess("a.md")
    /\ calls[c].params["silent"] = "false"
    /\ NotesOpened(c) = <<Event("focusOrOpenNote", "a.md", NoResult)>>
    /\ calls[c].openResult = StringResult(FALSE, "Note couldn't be opened")

\* C15: a call sends at most one callback, also when the sending fails; a
\* callback is sent with the handler result of the call, to the x-success URL
\* if that result is a success and to the x-error URL if it is a failure; and
\* a success with x-error but no x-success, or a failure with x-success but no
\* x-error, sends nothing.
C15_AtMostOneCallbackToTheMatchingUrl ==
  \A c \in CallIds :
    /\ Len(CallbacksSent(c)) <= 1
    /\ \A i \in 1..Len(CallbacksSent(c)) :
         /\ CallbacksSent(c)[i].payload = calls[c].handlerResult
         /\ CallbacksSent(c)[i].arg = RelevantCallback(c)
         /\ calls[c].handlerResult.isSuccess => CallbacksSent(c)[i].arg = calls[c].params["x-success"]
         /\ ~calls[c].handlerResult.isSuccess => CallbacksSent(c)[i].arg = calls[c].params["x-error"]
    /\ (/\ Done(c)
        /\ calls[c].handlerResult.isSuccess
        /\ ~Truthy(calls[c].params["x-success"])
        /\ Truthy(calls[c].params["x-error"])) => CallbacksSent(c) = <<>>
    /\ (/\ Done(c)
        /\ ~calls[c].handlerResult.isSuccess
        /\ ~Truthy(calls[c].params["x-error"])
        /\ Truthy(calls[c].params["x-success"])) => CallbacksSent(c) = <<>>

C15_Witness ==
  \E c \in CallIds :
    /\ Done(c)
    /\ ~calls[c].handlerResult.isSuccess
    /\ calls[c].params["x-success"] = "cb://success"
    /\ calls[c].params["x-error"] = "cb://error"
    /\ calls[c].sendCallbackResult = StringResult(FALSE, "callback failed")
    /\ CallbacksSent(c) = <<Event("sendUrlCallback", "cb://error", calls[c].handlerResult)>>

\* Calls c and d came in on the same route with the same parameters.
SameCall(c, d) ==
  /\ Arrived(c) /\ Arrived(d)
  /\ calls[c].route = calls[d].route
  /\ calls[c].incoming = calls[d].incoming

\* While call c awaits its handler, call d can take its next step, whichever
\* it is.
NotBlockedBy(c, d) ==
  calls[c].pc = "awaiting" =>
    /\ d \in pending => ENABLED IncomingCallOfTwo(d)
    /\ calls[d].pc = "awaiting" => ENABLED HandlerResolves(d)

\* Everything of call c follows from its own route, parameters and handler
\* result, and from how its callback and its opening of the note went.
OwnResult(c) ==
  /\ Arrived(c) =>
       /\ calls[c].route \in registered
       /\ calls[c].pc = "rejected" <=> ~SafeParse(env, calls[c].route.schema, calls[c].incoming).success
       /\ calls[c].pc # "rejected" =>
            ProcessingResult(c).params = SafeParse(env, calls[c].route.schema, calls[c].incoming).data
  /\ Done(c) =>
       /\ ProcessingResult(c).handlerResult \in HandlerResults(calls[c].route.handler)
       /\ \A i \in 1..Len(CallbacksSent(c)) :
            CallbacksSent(c)[i].arg \in
              {calls[c].incoming["x-success"], calls[c].incoming["x-error"]}

\* Two calls that are the same, with the same handler result, have gone
\* through the same, whenever each was handled.
SameOutcome(c, d) ==
  (SameCall(c, d) /\ calls[c].pc # "awaiting" /\ calls[d].pc # "awaiting"
     /\ calls[c].handlerResult = calls[d].handlerResult) =>
    /\ calls[c].pc = calls[d].pc
    /\ calls[c].params = calls[d].params
    /\ calls[c].errors = calls[d].errors
    /\ CallbacksSent(c) = CallbacksSent(d)
    /\ NotesOpened(c) = NotesOpened(d)
    /\ calls[c].sendCallbackResult.isSuccess = calls[d].sendCallbackResult.isSuccess =>
         calls[c].sendCallbackResult = calls[d].sendCallbackResult
    /\ calls[c].openResult.isSuccess = calls[d].openResult.isSuccess =>
         calls[c].openResult = calls[d].openResult

\* A step is a step of one call: the record of any other call is left as it
\* is, and so are the registered routes.
StepOfOneCall ==
  /\ registered' = registered
  /\ \A c \in CallIds :
       calls'[c] # calls[c] => \A d \in CallIds \ {c} : calls'[d] = calls[d]

\* C16: with two calls in flight, on the same route or on different ones, a
\* call that awaits its handler never keeps the other from coming in, being
\* validated, and being handled to its end; what a call ends with follows
\* from its own parameters and its own handler result alone; a step of one
\* call changes nothing of the other; and the registered routes are those of
\* the registration throughout.
C16_CallsDoNotInterfere ==
  /\ [](\A c, d \in CallIds : c # d => NotBlockedBy(c, d) /\ SameOutcome(c, d))
  /\ [](\A c \in CallIds : OwnResult(c))
  /\ [](registered = RegisterRoutes(Routes))
  /\ [][StepOfOneCall]_vars

C16_Witness ==
  /\ calls[1].pc = "awaiting"
  /\ calls[1].events = <<Event("handler", "handleTargetedNote", NoResult)>>
  /\ Done(2)
  /\ calls[2].route = calls[1].route
  /\ calls[2].incoming # calls[1].incoming
  /\ Len(CallbacksSent(2)) = 1
  /\ Len(NotesOpened(2)) = 1

----------------------------------------------------------------------------
(* What the note targeting resolved *)

Resolved == probe.state = "resolved"

\* The targeting keys the input supplies, and those with a non-empty value.
Supplied == {key \in TargetingKeys : probe.input[key] # Absent}
NonEmpty == {key \in TargetingKeys : probe.input[key] \notin {Absent, ""}}

FaultyTargeting ==
  /\ probe.out.issues = <<FaultyNoteTargetingMsg>>
  /\ probe.out.never
  /\ probe.out.computed = NoComputed

\* C3: an input that supplies two or more of file, uid and periodic-note,
\* whichever they are, gets the faulty-note-targeting issue and no computed
\* targeting, in soft and in hard mode.
C3_TwoOrMoreKeysAreFaulty ==
  (Resolved /\ Cardinality(Supplied) >= 2) => FaultyTargeting

C3_Witness ==
  /\ Resolved
  /\ Supplied = {"file", "periodic-note"}
  /\ probe.input["file"] = "a.md"
  /\ probe.mode = "soft"
  /\ ZodExistingNotePath(env, "a.md")
  /\ FaultyTargeting

\* C4: an input in which none of file, uid and periodic-note is present and
\* non-empty gets the faulty-note-targeting issue, in soft and in hard mode,
\* and never a computed targeting with an empty selected key.
C4_NoNonEmptyKeyIsFaulty ==
  (Resolved /\ NonEmpty = {}) => FaultyTargeting

\* The note at the path has a front-matter uid that is the given value, or a
\* list that contains it.
NoteHasUid(path, uid) ==
  LET v == ParseFrontMatterEntry(env, path)
  IN \/ v.kind = "str" /\ v.s = uid
     \/ v.kind = "list" /\ \E i \in 1..Len(v.items) : v.items[i] = uid

NotesWithUid(uid) == {path \in NotePaths : ZodExistingNotePath(env, path) /\ NoteHasUid(path, uid)}

\* The input targets a note by uid alone.
ByUid == Resolved /\ Supplied = {"uid"} /\ NonEmpty = {"uid"}

\* C5: a uid that is the front-matter uid of exactly one note, as a scalar or
\* as an element of a list, resolves to the path of that note with
\* pathExists true, whether the metadata cache or the scan of the markdown
\* files finds it.
C5_UidOfOneNoteResolvesToIt ==
  \A path \in NotePaths :
    (ByUid /\ NotesWithUid(probe.input["uid"]) = {path}) =>
      /\ ~probe.out.never
      /\ probe.out.issues = <<>>
      /\ probe.out.computed = [inputKey |-> "uid", path |-> path, pathExists |-> TRUE]

\* C6: a uid that is the front-matter uid of no note (notes without front
\* matter or without a uid included) resolves, in soft mode, to an empty path
\* with pathExists false and no issue, and gets, in hard mode, the
\* note-not-found issue and no computed targeting.
C6_UidOfNoNoteIsMissing ==
  (ByUid /\ NotesWithUid(probe.input["uid"]) = {}) =>
    IF probe.mode = "soft"
    THEN /\ ~probe.out.never
         /\ probe.out.issues = <<>>
         /\ probe.out.computed = [inputKey |-> "uid", path |-> "", pathExists |-> FALSE]
    ELSE /\ probe.out.never
         /\ probe.out.issues = <<NoteNotFoundMsg>>
         /\ probe.out.computed = NoComputed

\* The input targets a periodic note alone.
ByPeriodicNote == Resolved /\ Supplied = {"periodic-note"} /\ NonEmpty = {"periodic-note"}

\* C7: a periodic note whose plugin is not loaded fails to resolve with the
\* feature-unavailable error, in soft and in hard mode: it neither succeeds
\* with pathExists false nor reports note-not-found.
C7_DisabledPeriodicNoteIsUnavailable ==
  (ByPeriodicNote /\ ~PluginLoadedCheck(env, probe.input["periodic-note"])) =>
    /\ probe.out.never
    /\ probe.out.issues = <<FeatureNotAvailableMsg(probe.input["periodic-note"])>>

\* The vault has a note at the path.
NoteInStore(path) == \E i \in 1..Len(env.notes) : env.notes[i] = path

\* C17: a hard-mode resolution that succeeds, by file, uid or periodic note,
\* has computed a non-empty path of a note of the vault with pathExists true,
\* so the data a hard-mode schema passes on to a handler never has pathExists
\* false; and a soft-mode resolution whose pathExists is true has a non-empty
\* path of a note of the vault.
C17_HardSuccessHasExistingPath ==
  Resolved =>
    /\ (probe.mode = "hard" /\ ~probe.out.never) =>
         /\ probe.out.computed.inputKey \in TargetingKeys
         /\ probe.out.computed.pathExists
         /\ probe.out.computed.path # ""
         /\ NoteInStore(probe.out.computed.path)
    /\ (probe.mode = "soft" /\ ~probe.out.never /\ probe.out.computed.pathExists) =>
         /\ probe.out.computed.path # ""
         /\ NoteInStore(probe.out.computed.path)
    /\ probe.mode = "hard" =>
         LET parsed == SafeParse(env, "NoteTargetingParams.hard", probe.input)
         IN parsed.success =>
              /\ parsed.computed = probe.out.computed
              /\ parsed.computed.pathExists

C17_Witness ==
  /\ Resolved
  /\ probe.mode = "hard"
  /\ probe.input["periodic-note"] = "weekly"
  /\ ~probe.out.never
  /\ probe.out.computed = [inputKey |-> "periodic-note", path |-> "b.md", pathExists |-> TRUE]

====
